---------------------------- MODULE Spec2Model ----------------------------
(***************************************************************************)
(* The chunked CSV ingestion pipeline of the production dashboard:        *)
(*   - the route /api/upload-csv-chunked (POST and handleStreamingUpload), *)
(*   - the header replacer replaceCSVHeaders,                              *)
(*   - the edge function bulk-upsert-productions,                          *)
(*   - the csv-uploads bucket and the productions table it writes to.      *)
(*                                                                         *)
(* A CSV text is modelled as the sequence of its lines (the result of      *)
(* split('\n')); a line is a record: a blank line, a header line or a data *)
(* row with its production_order_number (key) and the rest of its fields   *)
(* (val).  One job is followed from the request to its terminal report;    *)
(* the same file may then be submitted a second time.                      *)
(***************************************************************************)
EXTENDS Integers, Sequences, FiniteSets

\* ----------------------------------------------------------------- bounds

\* The most data lines of a submitted file (the orchestration).
MaxRows == 2

\* The largest chunk ceiling explored; the source fixes CHUNK_SIZE = 8000.
MaxChunkSize == 2

\* The rows of one upsert batch; the source fixes BATCH_SIZE = 1000.
BATCH_SIZE == 1

\* The most collaborator faults (storage, transport, database) of one behaviour.
MaxFaults == 1

\* The most data lines and the largest ceiling of the chunker on its own.
ChunkerMaxRows == 4

ChunkerMaxChunkSize == 3

\* Two requests at once: the most data lines of the file, the chunks of the
\* other request, and the last reading of the clock.
StagingMaxRows == 2

PeerChunks == 2

MaxNow == 2

\* Batches of several rows: the most data rows of the file, the largest chunk
\* ceiling and the largest batch of the edge function.
BatchesMaxRows == 3

BatchesMaxChunkSize == 3

BatchesMaxBatchSize == 2

\* The decoder on its own: the most body lines of the file.
DecoderMaxRows == 2

\* ------------------------------------------------------------------ lines

NULL == "NULL"

BlankLine == [kind |-> "blank", key |-> "", val |-> ""]

\* The canonical field names, in column order.
ENGLISH_HEADERS ==
    << "arrangement_method", "inspection_type", "customer_name", "part_number",
       "production_order_number", "line_code", "work_area", "operator_main",
       "operator_plating", "plating_type", "plating_jig", "issue_date",
       "plating_payout_date", "due_date", "order_quantity",
       "oohito_shipment_date", "plating_process", "tamagawa_receipt_date",
       "operator_5x", "shelf_number", "plating_capacity", "bending_count",
       "brazing_count", "machine_number", "brazing_jig", "subcontractor" >>

\* ENGLISH_HEADERS.join(',')
EnglishHeaderLine == [kind |-> "hdr", key |-> "english", val |-> ""]

\* What a producer may send as the first line: the Japanese header, or the
\* same header garbled by a wrong decoding.
RawHeaderLines ==
    { [kind |-> "hdr", key |-> "japanese", val |-> ""],
      [kind |-> "hdr", key |-> "garbled", val |-> ""] }

\* The data rows of the inputs: two business keys, a blank key, two payloads.
RowLines ==
    { [kind |-> "row", key |-> "k1", val |-> "a"],
      [kind |-> "row", key |-> "k1", val |-> "b"],
      [kind |-> "row", key |-> "k2", val |-> "a"],
      [kind |-> "row", key |-> "",   val |-> "a"] }

BodyLines == RowLines \cup {BlankLine}

\* The data rows under one payload: the key k1, the key k2, no key.
PlainRows == { r \in RowLines : r.val = "a" }

SeqsUpTo(S, n) == UNION { [1..k -> S] : k \in 0..n }

Min(a, b) == IF a < b THEN a ELSE b

\* Array.prototype.slice(a, b) on a 0-based array.
Slice(s, a, b) == SubSeq(s, a + 1, Min(b, Len(s)))

\* line.trim() is non-empty
NonBlank(line) == line.kind # "blank"

\* content.split('\n').filter(line => line.trim())
FilterLines(lines) == SelectSeq(lines, NonBlank)

\* ------------------------------------------------------ header normalizer

\* The canonical header line put before the lines as they came: the first
\* line of the input is kept and becomes a data row.
replaceCSVHeadersPrepends(lines) == <<EnglishHeaderLine>> \o lines

replaceCSVHeaders(lines) ==
    IF Len(lines) = 0
    THEN lines
    ELSE [lines EXCEPT ![1] = EnglishHeaderLine]

\* ---------------------------------------------------------------- chunker

\* The loop with the bound i + CHUNK_SIZE <= length: the last, shorter chunk is lost.
RECURSIVE ChunkLoopDropsPartial(_, _, _, _)
ChunkLoopDropsPartial(rows, headers, size, i) ==
    IF i + size <= Len(rows)
    THEN << <<headers>> \o Slice(rows, i, i + size) >>
         \o ChunkLoopDropsPartial(rows, headers, size, i + size)
    ELSE << >>

\* The loop pushing chunkRows alone, without the header line.
RECURSIVE ChunkLoopNoHeader(_, _, _, _)
ChunkLoopNoHeader(rows, headers, size, i) ==
    IF i < Len(rows)
    THEN << Slice(rows, i, i + size) >>
         \o ChunkLoopNoHeader(rows, headers, size, i + size)
    ELSE << >>

\* A do-while in place of the for: one chunk is built before the bound is
\* looked at, so a file without data rows gives a chunk of the header alone.
RECURSIVE ChunkLoopAtLeastOne(_, _, _, _)
ChunkLoopAtLeastOne(rows, headers, size, i) ==
    IF i < Len(rows) \/ i = 0
    THEN << <<headers>> \o Slice(rows, i, i + size) >>
         \o ChunkLoopAtLeastOne(rows, headers, size, i + size)
    ELSE << >>

RECURSIVE ChunkLoop(_, _, _, _)
ChunkLoop(rows, headers, size, i) ==
    IF i < Len(rows)
    THEN << <<headers>> \o Slice(rows, i, i + size) >>
         \o ChunkLoop(rows, headers, size, i + size)
    ELSE << >>

RECURSIVE Reversed(_)
Reversed(s) == IF s = << >> THEN << >> ELSE Append(Reversed(Tail(s)), Head(s))

\* chunks.unshift(...) instead of chunks.push(...): the chunks in reverse order.
SplitChunksUnshift(rows, headers, size) == Reversed(ChunkLoop(rows, headers, size, 0))

SplitChunks(rows, headers, size) == ChunkLoop(rows, headers, size, 0)

\* lines.slice(1)
DataRowsOf(lines) == Slice(lines, 1, Len(lines))


\* ------------------------------------------------------------------ state

VARIABLES
    mode,           \* "json" | "stream": url.searchParams.get('stream') === 'true'
    fileState,      \* "none" | "notcsv" | "ok": formData.get('file') and its name
    fileLines,      \* the decoded file content, split at '\n'
    chunkSize,      \* CHUNK_SIZE
    batchSize,      \* BATCH_SIZE of the edge function
    run,            \* 1: the first submission of the file, 2: the second
    now,            \* Date.now()
    pc,             \* where the route handler stands
    dataRows,       \* lines.slice(1)
    chunks,         \* string[][]: each chunk is the header line and its rows
    chunkNumber,    \* i + 1 of the chunk loop
    chunkFileName,  \* the name the current chunk is staged under
    chunkResults,   \* ChunkProcessResult['chunks']
    totalInserted,
    totalUpdated,
    totalErrors,
    report,         \* the terminal report: the JSON body or the terminal frame
    streamState,    \* the ReadableStream: "readable" | "closed" | "errored"
    frames,         \* the frames enqueued on the stream, in order
    bucket,         \* the objects of the csv-uploads bucket
    store,          \* the rows of the productions table
    ef,             \* the running invocation of bulk-upsert-productions
    uploadCalls,    \* history: the chunk numbers whose upload was issued
    invokeCalls,    \* history: the chunk numbers whose invoke was issued
    inflight,       \* the storage and function calls issued and not yet returned
    faults,         \* the collaborator faults injected so far
    firstRun,       \* what the first submission left, once the second starts
    peer,           \* a second request served by the same route at the same time
    bulk,           \* a request served by the bulk route (upload-csv-bulk)
    outcomes,       \* the collaborator calls that are going to fail, when fixed ahead
    legacy,         \* a request served by the legacy route (upload-csv)
    decoder         \* file.arrayBuffer() and what the TextDecoder made of it

vars ==
    << mode, fileState, fileLines, chunkSize, batchSize, run, now, pc, dataRows,
       chunks, chunkNumber, chunkFileName, chunkResults, totalInserted, totalUpdated,
       totalErrors, report, streamState, frames, bucket, store, ef,
       uploadCalls, invokeCalls, inflight, faults, firstRun, peer, bulk,
       outcomes, legacy, decoder >>

jobVars ==
    << pc, dataRows, chunks, chunkNumber, chunkFileName, chunkResults,
       totalInserted, totalUpdated, totalErrors, report >>

requestVars == << mode, fileState, fileLines, chunkSize, batchSize, decoder >>

\* What no step of the job changes: its request, and the other requests.
inputVars == << requestVars, peer, bulk, outcomes, legacy >>

\* The other request before its chunk loop: the number of its next chunk,
\* the names of its staged objects, the chunks whose upload was refused, and
\* the rows its invocations have upserted, chunk by chunk.
PeerIdle == [chunkNumber |-> 1, staged |-> {}, refused |-> {}, applied |-> << >>]

NoName == [ts |-> 0, n |-> 0]

NoReport == [kind |-> "none"]

\* No request at the bulk route.
BulkOff ==
    [ pc |-> "off", uploadedFileName |-> NoName, uploads |-> 0, invokes |-> 0,
      processResult |-> [called |-> FALSE], response |-> NoReport ]

\* No request at the legacy route.
LegacyOff ==
    [ pc |-> "off", run |-> 1, batches |-> << >>, i |-> 0, totalInserted |-> 0,
      success |-> TRUE, writes |-> << >>, response |-> NoReport,
      first |-> NoReport ]

\* The content of the file is given as decoded text: no bytes to decode.
DecoderOff ==
    [ pc |-> "off",
      bytes |-> [text |-> << >>, encoding |-> "none", misread |-> "none"],
      supported |-> {}, used |-> "none", damage |-> "none" ]

EfIdle ==
    [ pc |-> "idle", fileName |-> NoName, productions |-> << >>, i |-> 0,
      totalInserted |-> 0, errors |-> << >>, removed |-> FALSE ]

NoFirstRun == [seen |-> FALSE, store |-> {}, inserted |-> 0, report |-> NoReport]

\* The state of a request that has just arrived.
FreshJob ==
    /\ pc = "formData"
    /\ dataRows = << >>
    /\ chunks = << >>
    /\ chunkNumber = 1
    /\ chunkFileName = NoName
    /\ chunkResults = << >>
    /\ totalInserted = 0
    /\ totalUpdated = 0
    /\ totalErrors = 0
    /\ report = NoReport
    /\ streamState = IF mode = "stream" THEN "readable" ELSE "none"
    /\ frames = << >>
    /\ ef = EfIdle
    /\ uploadCalls = << >>
    /\ invokeCalls = << >>
    /\ inflight = {}

\* The files a caller may submit: a first line, then up to n body lines.
Files(n, firstLines) ==
    { <<h>> \o body : h \in firstLines, body \in SeqsUpTo(BodyLines, n) }

JapaneseHeaderLine == [kind |-> "hdr", key |-> "japanese", val |-> ""]

Init ==
    /\ mode \in {"json", "stream"}
    /\ \/ /\ fileState = "ok"
          /\ fileLines \in Files(MaxRows, {JapaneseHeaderLine})
          /\ chunkSize \in 1..MaxChunkSize
       \/ /\ fileState \in {"none", "notcsv"}
          /\ fileLines = <<BlankLine>>
          /\ chunkSize = 1
    /\ batchSize = BATCH_SIZE
    /\ run = 1
    /\ now = 1
    /\ FreshJob
    /\ bucket = {}
    /\ store = {}
    /\ faults = 0
    /\ firstRun = NoFirstRun
    /\ peer = PeerIdle
    /\ bulk = BulkOff
    /\ outcomes = {}
    /\ legacy = LegacyOff
    /\ decoder = DecoderOff


\* ------------------------------------------------- the productions table

\* value = values[index]?.trim().replace(/"/g, '') || null, and '0' as null
NullIfEmpty(v) == IF v = "" \/ v = "0" THEN NULL ELSE v

Production(row) == [key |-> NullIfEmpty(row.key), val |-> NullIfEmpty(row.val)]

\* lines -> headers, dataRows -> productions
ParseProductions(content) ==
    LET rows == DataRowsOf(FilterLines(content))
    IN  [k \in 1..Len(rows) |-> Production(rows[k])]

\* UNIQUE (production_order_number): two rows conflict when they carry the
\* same key and the key is not NULL (NULLs never conflict).
Conflicts(k1, k2) == k1 = k2 /\ k1 # NULL

\* The insert without the constraint and its conflict clause: every row of
\* the batch becomes a new record.
UpsertRowInsertsAlways(table, p) ==
    table \cup {[id |-> Cardinality(table) + 1, key |-> p.key, val |-> p.val]}

\* INSERT ... ON CONFLICT (production_order_number) DO UPDATE, one row.
UpsertRow(table, p) ==
    IF \E r \in table : Conflicts(r.key, p.key)
    THEN { IF Conflicts(r.key, p.key) THEN [r EXCEPT !.val = p.val] ELSE r
           : r \in table }
    ELSE table \cup {[id |-> Cardinality(table) + 1, key |-> p.key, val |-> p.val]}

RECURSIVE UpsertRows(_, _, _)
UpsertRows(table, batch, k) ==
    IF k > Len(batch)
    THEN table
    ELSE UpsertRows(UpsertRow(table, batch[k]), batch, k + 1)

\* One statement may not touch the same row twice: a batch that carries one
\* key twice is refused as a whole.
TouchesTwice(batch) ==
    \E a, b \in 1..Len(batch) : a # b /\ Conflicts(batch[a].key, batch[b].key)

\* ------------------------------------------------------ the edge function

BatchError(i) == [what |-> "batch", n |-> (i \div batchSize) + 1]

EfStart(name) == [EfIdle EXCEPT !.pc = "download", !.fileName = name]

\* download(fileName) and the parse; a failed download throws, and the catch
\* answers 500 without touching the staged object.
EfDownload ==
    /\ ef.pc = "download"
    /\ \E ok \in BOOLEAN :
         /\ ok \/ faults < MaxFaults
         /\ faults' = IF ok THEN faults ELSE faults + 1
         /\ IF ok /\ \E o \in bucket : o.name = ef.fileName
            THEN LET o == CHOOSE o \in bucket : o.name = ef.fileName
                 IN  ef' = [ef EXCEPT !.pc = "batch",
                                      !.productions = ParseProductions(o.content)]
            ELSE ef' = [ef EXCEPT !.pc = "failed"]
    /\ UNCHANGED << inputVars, run, now, jobVars, streamState, frames, bucket,
                    store, uploadCalls, invokeCalls, inflight, firstRun >>

\* The count of the rows that carry a business key, in place of batch.length.
CountBatchKeyed(total, batch) ==
    total + Cardinality({ k \in 1..Len(batch) : batch[k].key # NULL })

\* totalInserted += batch.length
CountBatch(total, batch) == total + Len(batch)

\* The batch loop left at the first batch that fails: the error is recorded
\* and the batches after it are not attempted.
EfBatchStopsAtError ==
    /\ ef.pc = "batch"
    /\ ef.i < Len(ef.productions)
    /\ \E ok \in BOOLEAN :
         LET batch == Slice(ef.productions, ef.i, ef.i + batchSize)
         IN  /\ ok \/ faults < MaxFaults
             /\ faults' = IF ok THEN faults ELSE faults + 1
             /\ IF ok /\ ~TouchesTwice(batch)
                THEN /\ store' = UpsertRows(store, batch, 1)
                     /\ ef' = [ef EXCEPT !.i = ef.i + batchSize,
                                         !.totalInserted = ef.totalInserted + Len(batch)]
                ELSE /\ store' = store
                     /\ ef' = [ef EXCEPT !.i = Len(ef.productions) + batchSize,
                                         !.errors = Append(ef.errors, BatchError(ef.i))]
    /\ UNCHANGED << inputVars, run, now, jobVars, streamState, frames, bucket,
                    uploadCalls, invokeCalls, inflight, firstRun >>

\* One turn of the batch loop: the upsert of productions.slice(i, i + BATCH_SIZE).
EfBatch ==
    /\ ef.pc = "batch"
    /\ ef.i < Len(ef.productions)
    /\ \E ok \in BOOLEAN :
         LET batch == Slice(ef.productions, ef.i, ef.i + batchSize)
         IN  /\ ok \/ faults < MaxFaults
             /\ faults' = IF ok THEN faults ELSE faults + 1
             /\ IF ok /\ ~TouchesTwice(batch)
                THEN /\ store' = UpsertRows(store, batch, 1)
                     /\ ef' = [ef EXCEPT !.i = ef.i + batchSize,
                                         !.totalInserted = CountBatch(ef.totalInserted, batch)]
                ELSE /\ store' = store
                     /\ ef' = [ef EXCEPT !.i = ef.i + batchSize,
                                         !.errors = Append(ef.errors, BatchError(ef.i))]
    /\ UNCHANGED << inputVars, run, now, jobVars, streamState, frames, bucket,
                    uploadCalls, invokeCalls, inflight, firstRun >>

\* After the last batch: remove([fileName]) (its outcome is not looked at) and
\* the 200 answer with the counts.
EfFinish ==
    /\ ef.pc = "batch"
    /\ ef.i >= Len(ef.productions)
    /\ \E ok \in BOOLEAN :
         /\ ok \/ faults < MaxFaults
         /\ faults' = IF ok THEN faults ELSE faults + 1
         /\ bucket' = IF ok THEN { o \in bucket : o.name # ef.fileName } ELSE bucket
         /\ ef' = [ef EXCEPT !.pc = "returned", !.removed = ok]
    /\ UNCHANGED << inputVars, run, now, jobVars, streamState, frames, store,
                    uploadCalls, invokeCalls, inflight, firstRun >>

\* The invocation ends without an answer of the function: CPU time exceeded,
\* a timeout, a transport failure.  What was upserted stays, nothing is removed.
EfKilled ==
    /\ ef.pc = "batch"
    /\ faults < MaxFaults
    /\ faults' = faults + 1
    /\ ef' = [ef EXCEPT !.pc = "failed"]
    /\ UNCHANGED << inputVars, run, now, jobVars, streamState, frames, bucket,
                    store, uploadCalls, invokeCalls, inflight, firstRun >>

\* The body of the 200 answer: success, inserted, updated, errors, totalRecords.
EfResult ==
    [ success |-> Len(ef.errors) = 0, inserted |-> ef.totalInserted,
      updated |-> 0, errors |-> ef.errors, totalRecords |-> Len(ef.productions) ]


\* -------------------------------------------------------------- the route

Streaming == mode = "stream"

\* controller.enqueue throws a TypeError once the stream is no longer readable.
CanEnqueue == streamState = "readable"

Frame(kind, n) == [kind |-> kind, n |-> n]

\* controller.enqueue(frame) of the streaming mode; nothing in the JSON mode.
EmitFrame(fs, frame) == IF Streaming THEN Append(fs, frame) ELSE fs

Emit(fs, kind, n) == EmitFrame(fs, Frame(kind, n))

\* The frame after a chunk was applied, with the running totals in place of
\* the chunk's own figures.
ChunkDoneFrameCumulative(n, data) ==
    [ kind |-> "chunkDone", n |-> n,
      inserted |-> totalInserted + data.totalInserted,
      errors |-> totalErrors + Len(data.errors) ]

\* status: `chunk n done: ${chunkResult.inserted} processed, ${errors.length} errors`
ChunkDoneFrame(n, data) ==
    [ kind |-> "chunkDone", n |-> n, inserted |-> data.totalInserted,
      errors |-> Len(data.errors) ]

\* status: `chunk n error: ${error.message}`
ChunkErrorFrame(n, msg) == [kind |-> "chunkError", n |-> n, message |-> msg]

\* An enqueue on a stream that is no longer readable throws; the outer catch
\* enqueues again and throws again, and so does controller.close() in the
\* finally: start() rejects and the job is over.
EnqueueThrows == Streaming /\ ~CanEnqueue

\* chunk-${Date.now()}-${chunkNumber}.csv
ChunkFileName(t, n) == [ts |-> t, n |-> n]

UploadCall(n) == [op |-> "upload", n |-> n]

InvokeCall(n) == [op |-> "invoke", n |-> n]

ChunkError(what, n) == [what |-> what, n |-> n]

\* The entry the catch of the chunk loop records.
FailedEntry(n, msg) ==
    [ chunkNumber |-> n, records |-> Len(chunks[n]) - 1, inserted |-> 0,
      updated |-> 0, errors |-> <<msg>> ]

\* The entry recorded from the function's answer.
SuccessEntry(n, data) ==
    [ chunkNumber |-> n, records |-> Len(chunks[n]) - 1,
      inserted |-> data.totalInserted, updated |-> 0, errors |-> data.errors ]

\* for (let i = 0; ...; i++)
NextChunkNumber(n) == n + 1

\* The addition left out: the chunk is recorded, the total is not moved.
AddInsertedDropped(total, inserted) == total

\* totalInserted += chunkResult.inserted || 0
AddInserted(total, inserted) == total + inserted

\* success without a look at the error count.
ResultSuccessAlways(errs) == TRUE

\* success: totalErrors === 0
ResultSuccess(errs) == errs = 0

\* The HTTP status of the answer: NextResponse.json(..., { status }) in the
\* JSON mode; the event stream is answered 200 whatever its frames say.
HttpStatus(code) == IF Streaming THEN 200 ELSE code

\* controller.close() of a validation branch, and controller.close() again
\* in the finally, which throws, so that start() rejects.  With a read of the
\* subscriber pending, the error frame went to it and the first close closed
\* the stream: the rejection finds nothing to do.  With no read pending the
\* frame waits in the queue and the stream is only asked to close: the
\* rejection errors the stream and empties its queue.
CloseTwice(readPending) ==
    IF ~Streaming THEN streamState
    ELSE IF readPending THEN "closed" ELSE "errored"

\* formData(), the two validations and the first status frame.
Receive ==
    /\ pc = "formData"
    /\ IF EnqueueThrows
       THEN /\ pc' = "aborted"
            /\ UNCHANGED << report, frames, streamState >>
       ELSE IF fileState # "ok"
            THEN /\ pc' = "done"
                 /\ report' = [kind |-> "rejected", status |-> HttpStatus(400)]
                 /\ frames' = Emit(frames, "error", 0)
                 /\ \E readPending \in BOOLEAN :
                        streamState' = CloseTwice(readPending)
            ELSE /\ pc' = "arrayBuffer"
                 /\ frames' = Emit(frames, "status", 0)
                 /\ UNCHANGED << report, streamState >>
    /\ UNCHANGED << inputVars, run, now, dataRows, chunks, chunkNumber,
                    chunkFileName, chunkResults, totalInserted, totalUpdated,
                    totalErrors, bucket, store, ef, uploadCalls, invokeCalls,
                    inflight, faults, firstRun >>

\* Header replacement, the split into lines and the split into chunks.
Prepare ==
    /\ pc = "arrayBuffer"
    /\ IF EnqueueThrows
       THEN /\ pc' = "aborted"
            /\ UNCHANGED << dataRows, chunks, frames >>
       ELSE LET lines == FilterLines(replaceCSVHeaders(fileLines))
                headers == lines[1]
                rows == DataRowsOf(lines)
            IN  /\ dataRows' = rows
                /\ chunks' = SplitChunks(rows, headers, chunkSize)
                /\ frames' = Emit(Emit(frames, "total", Len(rows)), "split", 0)
                /\ pc' = "loop"
    /\ UNCHANGED << inputVars, run, now, chunkNumber, chunkFileName,
                    chunkResults, totalInserted, totalUpdated, totalErrors,
                    report, streamState, bucket, store, ef, uploadCalls,
                    invokeCalls, inflight, faults, firstRun >>

\* The head of the chunk loop: the status frame, the file name, the upload call.
LoopHead ==
    /\ pc = "loop"
    /\ IF chunkNumber > Len(chunks)
       THEN /\ pc' = "finish"
            /\ UNCHANGED << chunkFileName, frames, uploadCalls, inflight >>
       ELSE IF EnqueueThrows
            THEN /\ pc' = "aborted"
                 /\ UNCHANGED << chunkFileName, frames, uploadCalls, inflight >>
            ELSE /\ pc' = "upload"
                 /\ frames' = Emit(frames, "chunkStart", chunkNumber)
                 /\ chunkFileName' = ChunkFileName(now, chunkNumber)
                 /\ uploadCalls' = Append(uploadCalls, chunkNumber)
                 /\ inflight' = inflight \cup {UploadCall(chunkNumber)}
    /\ UNCHANGED << inputVars, run, now, dataRows, chunks, chunkNumber,
                    chunkResults, totalInserted, totalUpdated, totalErrors,
                    report, streamState, bucket, store, ef, invokeCalls,
                    faults, firstRun >>

\* The catch recording the failed chunk without counting it: the entry is
\* pushed, totalErrors stays.
CatchChunkUncounted(results, errs, msg) ==
    /\ chunkResults' = Append(results, FailedEntry(chunkNumber, msg))
    /\ totalErrors' = errs
    /\ IF EnqueueThrows
       THEN /\ pc' = "aborted"
            /\ UNCHANGED << frames, chunkNumber >>
       ELSE /\ pc' = "loop"
            /\ frames' = EmitFrame(frames, ChunkErrorFrame(chunkNumber, msg))
            /\ chunkNumber' = NextChunkNumber(chunkNumber)

\* The catch without its chunkResults.push: the failure is counted and
\* announced, the chunk is left without a result.
CatchChunkForgets(results, errs, msg) ==
    /\ chunkResults' = results
    /\ totalErrors' = errs + 1
    /\ IF EnqueueThrows
       THEN /\ pc' = "aborted"
            /\ UNCHANGED << frames, chunkNumber >>
       ELSE /\ pc' = "loop"
            /\ frames' = EmitFrame(frames, ChunkErrorFrame(chunkNumber, msg))
            /\ chunkNumber' = NextChunkNumber(chunkNumber)

\* The catch of the chunk loop, entered with the results and the error count
\* as they stand: the failed entry, totalErrors += 1, the error frame, and on
\* to the next chunk.
CatchChunk(results, errs, msg) ==
    /\ chunkResults' = Append(results, FailedEntry(chunkNumber, msg))
    /\ totalErrors' = errs + 1
    /\ IF EnqueueThrows
       THEN /\ pc' = "aborted"
            /\ UNCHANGED << frames, chunkNumber >>
       ELSE /\ pc' = "loop"
            /\ frames' = EmitFrame(frames, ChunkErrorFrame(chunkNumber, msg))
            /\ chunkNumber' = NextChunkNumber(chunkNumber)

\* The upload returns.  upsert: false refuses a name that exists.
UploadReturns ==
    /\ pc = "upload"
    /\ \E ok \in BOOLEAN :
         /\ ok \/ faults < MaxFaults
         /\ faults' = IF ok THEN faults ELSE faults + 1
         /\ IF ok /\ ~\E o \in bucket : o.name = chunkFileName
            THEN /\ bucket' = bucket \cup
                       {[name |-> chunkFileName, content |-> chunks[chunkNumber]]}
                 /\ ef' = EfStart(chunkFileName)
                 /\ invokeCalls' = Append(invokeCalls, chunkNumber)
                 /\ inflight' = (inflight \ {UploadCall(chunkNumber)})
                                   \cup {InvokeCall(chunkNumber)}
                 /\ pc' = "invoke"
                 /\ UNCHANGED << chunkResults, totalErrors, frames, chunkNumber >>
            ELSE /\ CatchChunk(chunkResults, totalErrors,
                               ChunkError("upload", chunkNumber))
                 /\ inflight' = inflight \ {UploadCall(chunkNumber)}
                 /\ UNCHANGED << bucket, ef, invokeCalls >>
    /\ UNCHANGED << inputVars, run, now, dataRows, chunks, chunkFileName,
                    totalInserted, totalUpdated, report, streamState, store,
                    uploadCalls, firstRun >>

\* The invoke returns: an error is thrown into the catch; an answer is
\* recorded, added to the totals and announced, and the delay starts.
InvokeReturns ==
    /\ pc = "invoke"
    /\ ef.pc \in {"returned", "failed"}
    /\ ef' = EfIdle
    /\ inflight' = inflight \ {InvokeCall(chunkNumber)}
    /\ IF ef.pc = "failed"
       THEN /\ CatchChunk(chunkResults, totalErrors,
                          ChunkError("edge", chunkNumber))
            /\ UNCHANGED totalInserted
       ELSE LET results == Append(chunkResults, SuccessEntry(chunkNumber, ef))
                errs == totalErrors + Len(ef.errors)
            IN  /\ totalInserted' = AddInserted(totalInserted, ef.totalInserted)
                /\ IF EnqueueThrows
                   THEN CatchChunk(results, errs,
                                   ChunkError("enqueue", chunkNumber))
                   ELSE /\ chunkResults' = results
                        /\ totalErrors' = errs
                        /\ frames' = EmitFrame(frames, ChunkDoneFrame(chunkNumber, ef))
                        /\ pc' = "delay"
                        /\ UNCHANGED chunkNumber
    /\ UNCHANGED << inputVars, run, now, dataRows, chunks, chunkFileName,
                    totalUpdated, report, streamState, bucket, store,
                    uploadCalls, invokeCalls, faults, firstRun >>

\* await new Promise(resolve => setTimeout(resolve, 1000))
DelayDone ==
    /\ pc = "delay"
    /\ pc' = "loop"
    /\ chunkNumber' = NextChunkNumber(chunkNumber)
    /\ UNCHANGED << inputVars, run, now, dataRows, chunks, chunkFileName,
                    chunkResults, totalInserted, totalUpdated, totalErrors,
                    report, streamState, frames, bucket, store, ef,
                    uploadCalls, invokeCalls, inflight, faults, firstRun >>

\* const result: ChunkProcessResult = { ... }
Result ==
    [ success |-> ResultSuccess(totalErrors), totalRecords |-> Len(dataRows),
      totalInserted |-> totalInserted, totalUpdated |-> totalUpdated,
      totalErrors |-> totalErrors, chunks |-> chunkResults ]

\* One body for both outcomes: the fields of the error body, whatever the
\* result.
ResponseOneShape(result) ==
    [ kind |-> IF result.success THEN "success" ELSE "error",
      status |-> HttpStatus(IF result.success THEN 200 ELSE 500),
      totalRecords |-> result.totalRecords,
      processed |-> result.totalInserted + result.totalUpdated,
      errors |-> result.totalErrors, chunks |-> result.chunks ]

\* The error body listing only the chunks that went through without error.
ResponseWithoutFailedChunks(result) ==
    IF result.success
    THEN [ kind |-> "success", status |-> HttpStatus(200),
           totalRecords |-> result.totalRecords,
           inserted |-> result.totalInserted, updated |-> result.totalUpdated,
           fileName |-> "file.csv", chunks |-> Len(result.chunks) ]
    ELSE [ kind |-> "error", status |-> HttpStatus(500),
           totalRecords |-> result.totalRecords,
           processed |-> result.totalInserted + result.totalUpdated,
           errors |-> result.totalErrors,
           chunks |-> SelectSeq(result.chunks, LAMBDA e : e.errors = << >>) ]

\* The body of the answer (JSON mode) or of the terminal frame (streaming):
\* kind stands for its message or error field; processingTime, which both
\* bodies carry, is left out.
Response(result) ==
    IF result.success
    THEN [ kind |-> "success", status |-> HttpStatus(200),
           totalRecords |-> result.totalRecords,
           inserted |-> result.totalInserted, updated |-> result.totalUpdated,
           fileName |-> "file.csv", chunks |-> Len(result.chunks) ]
    ELSE [ kind |-> "error", status |-> HttpStatus(500),
           totalRecords |-> result.totalRecords,
           processed |-> result.totalInserted + result.totalUpdated,
           errors |-> result.totalErrors, chunks |-> result.chunks ]

\* After the loop: the result, the answer or the terminal frame, the close.
Finish ==
    /\ pc = "finish"
    /\ IF EnqueueThrows
       THEN /\ pc' = "aborted"
            /\ UNCHANGED << report, frames, streamState >>
       ELSE /\ pc' = "done"
            /\ report' = Response(Result)
            /\ frames' = Emit(frames, IF Result.success THEN "complete"
                                      ELSE "completeError", 0)
            /\ streamState' = IF Streaming THEN "closed" ELSE streamState
    /\ UNCHANGED << inputVars, run, now, dataRows, chunks, chunkNumber,
                    chunkFileName, chunkResults, totalInserted, totalUpdated,
                    totalErrors, bucket, store, ef, uploadCalls, invokeCalls,
                    inflight, faults, firstRun >>

\* The points at which start() is suspended in an await.
AwaitPoints == {"formData", "arrayBuffer", "upload", "invoke", "delay"}

\* The subscriber goes away: the response stream is cancelled, which closes it.
Cancel ==
    /\ Streaming
    /\ streamState = "readable"
    /\ pc \in AwaitPoints
    /\ streamState' = "closed"
    /\ UNCHANGED << inputVars, run, now, jobVars, frames, bucket, store, ef,
                    uploadCalls, invokeCalls, inflight, faults, firstRun >>

\* The caller submits the same file again after the terminal report.
Resubmit ==
    /\ pc = "done"
    /\ run = 1
    /\ fileState = "ok"
    /\ run' = 2
    /\ now' = now + 1
    /\ firstRun' = [ seen |-> TRUE, store |-> store, inserted |-> totalInserted,
                    report |-> report ]
    /\ pc' = "formData"
    /\ dataRows' = << >>
    /\ chunks' = << >>
    /\ chunkNumber' = 1
    /\ chunkFileName' = NoName
    /\ chunkResults' = << >>
    /\ totalInserted' = 0
    /\ totalUpdated' = 0
    /\ totalErrors' = 0
    /\ report' = NoReport
    /\ streamState' = IF Streaming THEN "readable" ELSE "none"
    /\ frames' = << >>
    /\ uploadCalls' = << >>
    /\ invokeCalls' = << >>
    /\ UNCHANGED << inputVars, bucket, store, ef, inflight, faults >>

Next ==
    \/ Receive
    \/ Prepare
    \/ LoopHead
    \/ UploadReturns
    \/ EfDownload
    \/ EfBatch
    \/ EfFinish
    \/ EfKilled
    \/ InvokeReturns
    \/ DelayDone
    \/ Finish
    \/ Cancel
    \/ Resubmit

Spec == Init /\ [][Next]_vars


\* The chunker on its own: the request has been read, any first line, more
\* lines and a larger ceiling than the orchestration explores.
InitChunker ==
    /\ mode \in {"json", "stream"}
    /\ fileState = "ok"
    /\ fileLines \in Files(ChunkerMaxRows, RawHeaderLines \cup {BlankLine})
    /\ chunkSize \in 1..ChunkerMaxChunkSize
    /\ batchSize = BATCH_SIZE
    /\ run = 1
    /\ now = 1
    /\ pc = "arrayBuffer"
    /\ dataRows = << >>
    /\ chunks = << >>
    /\ chunkNumber = 1
    /\ chunkFileName = NoName
    /\ chunkResults = << >>
    /\ totalInserted = 0
    /\ totalUpdated = 0
    /\ totalErrors = 0
    /\ report = NoReport
    /\ streamState = IF mode = "stream" THEN "readable" ELSE "none"
    /\ frames = Emit(<< >>, "status", 0)
    /\ ef = EfIdle
    /\ uploadCalls = << >>
    /\ invokeCalls = << >>
    /\ inflight = {}
    /\ bucket = {}
    /\ store = {}
    /\ faults = 0
    /\ firstRun = NoFirstRun
    /\ peer = PeerIdle
    /\ bulk = BulkOff
    /\ outcomes = {}
    /\ legacy = LegacyOff
    /\ decoder = DecoderOff

NextChunker == Prepare

SpecChunker == InitChunker /\ [][NextChunker]_vars


\* ---------------------------------------------------------- the bulk route

\* const fileName = `${timestamp}-${file.name}`
BulkFileName(t) == [ts |-> t, n |-> 0]

\* uploadCSVToStorage: the outcome of the upload as a result, never thrown.
uploadCSVToStorage(ok, name) ==
    IF ok
    THEN [success |-> TRUE, fileName |-> name, path |-> name]
    ELSE [success |-> FALSE, error |-> "upload"]

\* The catch reporting what it caught as a success without rows.
triggerBulkProcessingSwallows(outcome, data, fileName) ==
    IF outcome = "data"
    THEN [ success |-> data.errors = << >>, inserted |-> data.totalInserted,
           updated |-> 0, errors |-> data.errors, fileName |-> data.fileName,
           totalRecords |-> Len(data.productions) ]
    ELSE [ success |-> TRUE, inserted |-> 0, updated |-> 0, errors |-> << >>,
           fileName |-> fileName, totalRecords |-> 0 ]

\* triggerBulkProcessing: the answer of the function as it came ("data"); an
\* error returned by invoke is thrown into the catch, an exception of invoke
\* ("thrown") lands there too, and the catch returns the failure as a result.
triggerBulkProcessing(outcome, data, fileName) ==
    IF outcome = "data"
    THEN [ success |-> data.errors = << >>, inserted |-> data.totalInserted,
           updated |-> 0, errors |-> data.errors, fileName |-> data.fileName,
           totalRecords |-> Len(data.productions) ]
    ELSE [ success |-> FALSE, inserted |-> 0, updated |-> 0,
           errors |-> <<ChunkError("edge", 0)>>, fileName |-> fileName,
           totalRecords |-> 0 ]

\* What performBulkUpload returns after the processing, as the route answers it.
BulkResponse(r) ==
    IF ~r.success
    THEN [ kind |-> "error", status |-> 500, error |-> "process",
           processed |-> r.inserted, total |-> r.totalRecords ]
    ELSE [ kind |-> "success", status |-> 200,
           totalRecords |-> r.totalRecords, processed |-> r.inserted ]

\* POST of the bulk route up to the upload: the validations, the header
\* replacement, and the upload issued by uploadCSVToStorage.
BulkReceive ==
    /\ bulk.pc = "formData"
    /\ IF fileState # "ok"
       THEN bulk' = [bulk EXCEPT !.pc = "done",
                                 !.response = [kind |-> "rejected", status |-> 400]]
       ELSE bulk' = [bulk EXCEPT !.pc = "upload", !.uploads = bulk.uploads + 1]
    /\ UNCHANGED << requestVars, peer, outcomes, legacy, run, now, jobVars,
                    streamState, frames, bucket, store, ef, uploadCalls, invokeCalls, inflight,
                    faults, firstRun >>

\* The upload returns: a failure is answered at once, without an invocation;
\* otherwise the function is invoked on the uploaded object.
BulkUploadReturns ==
    /\ bulk.pc = "upload"
    /\ \E ok \in BOOLEAN :
         LET name == BulkFileName(now)
             free == ~\E o \in bucket : o.name = name
             uploadResult == uploadCSVToStorage(ok /\ free, name)
         IN  /\ ok \/ faults < MaxFaults
             /\ faults' = IF ok THEN faults ELSE faults + 1
             /\ IF uploadResult.success
                THEN /\ bucket' = bucket \cup
                           {[ name |-> name,
                              content |-> replaceCSVHeaders(fileLines) ]}
                     /\ ef' = EfStart(uploadResult.path)
                     /\ bulk' = [bulk EXCEPT
                                   !.pc = "invoke",
                                   !.uploadedFileName = uploadResult.fileName,
                                   !.invokes = bulk.invokes + 1]
                ELSE /\ bulk' = [bulk EXCEPT
                                   !.pc = "done",
                                   !.response = [ kind |-> "error",
                                                  status |-> 500,
                                                  error |-> "upload" ]]
                     /\ UNCHANGED << bucket, ef >>
    /\ UNCHANGED << requestVars, peer, outcomes, legacy, run, now, jobVars,
                    streamState, frames, store, uploadCalls, invokeCalls, inflight, firstRun >>

\* The invocation ends and triggerBulkProcessing returns its result; the
\* early returns of performBulkUpload pass the catch with its cleanup by.
BulkInvokeReturns ==
    /\ bulk.pc = "invoke"
    /\ ef.pc \in {"returned", "failed"}
    /\ \E outcome \in (IF ef.pc = "returned" THEN {"data"} ELSE {"error", "thrown"}) :
         LET processResult ==
                 triggerBulkProcessing(outcome, ef, bulk.uploadedFileName)
         IN  bulk' = [bulk EXCEPT !.pc = "done",
                                  !.processResult = processResult,
                                  !.response = BulkResponse(processResult)]
    /\ ef' = EfIdle
    /\ UNCHANGED << requestVars, peer, outcomes, legacy, run, now, jobVars,
                    streamState, frames, bucket, store, uploadCalls,
                    invokeCalls, inflight, faults, firstRun >>

\* A request arrives at the bulk route.
InitBulk ==
    /\ mode = "json"
    /\ \/ /\ fileState = "ok"
          /\ fileLines \in Files(MaxRows, {JapaneseHeaderLine})
       \/ /\ fileState \in {"none", "notcsv"}
          /\ fileLines = <<BlankLine>>
    /\ chunkSize = 1
    /\ batchSize = BATCH_SIZE
    /\ run = 1
    /\ now = 1
    /\ pc = "off"
    /\ dataRows = << >>
    /\ chunks = << >>
    /\ chunkNumber = 1
    /\ chunkFileName = NoName
    /\ chunkResults = << >>
    /\ totalInserted = 0
    /\ totalUpdated = 0
    /\ totalErrors = 0
    /\ report = NoReport
    /\ streamState = "none"
    /\ frames = << >>
    /\ ef = EfIdle
    /\ uploadCalls = << >>
    /\ invokeCalls = << >>
    /\ inflight = {}
    /\ bucket = {}
    /\ store = {}
    /\ faults = 0
    /\ firstRun = NoFirstRun
    /\ peer = PeerIdle
    /\ bulk = [BulkOff EXCEPT !.pc = "formData"]
    /\ outcomes = {}
    /\ legacy = LegacyOff
    /\ decoder = DecoderOff

\* A request arrives at one of the two upload routes.
InitRoutes == Init \/ InitBulk

NextRoutes ==
    \/ Receive
    \/ Prepare
    \/ LoopHead
    \/ UploadReturns
    \/ EfDownload
    \/ EfBatch
    \/ EfFinish
    \/ EfKilled
    \/ InvokeReturns
    \/ DelayDone
    \/ Finish
    \/ Cancel
    \/ BulkReceive
    \/ BulkUploadReturns
    \/ BulkInvokeReturns

SpecRoutes == InitRoutes /\ [][NextRoutes]_vars


\* ------------------------------------------------------ two requests at once

\* The chunk loop of the other request, as far as the bucket sees it: the
\* name from Date.now() and the chunk number, and the upload under it, which
\* upsert: false refuses when the name is taken.
PeerStages ==
    /\ peer.chunkNumber <= PeerChunks
    /\ LET name == ChunkFileName(now, peer.chunkNumber)
       IN  IF \E o \in bucket : o.name = name
           THEN /\ peer' = [peer EXCEPT
                              !.chunkNumber = NextChunkNumber(peer.chunkNumber),
                              !.refused = peer.refused \cup {peer.chunkNumber}]
                /\ UNCHANGED bucket
           ELSE /\ peer' = [peer EXCEPT
                              !.chunkNumber = NextChunkNumber(peer.chunkNumber),
                              !.staged = peer.staged \cup {name}]
                /\ bucket' = bucket \cup
                      {[name |-> name, content |-> <<EnglishHeaderLine>>]}
    /\ UNCHANGED << requestVars, bulk, outcomes, legacy, run, now, jobVars,
                    streamState, frames, store, ef, uploadCalls, invokeCalls, inflight, faults,
                    firstRun >>

\* The invocation of the other request ends on its normal path: the edge
\* function removes the object it was given.
PeerApplied ==
    /\ \E name \in peer.staged :
         /\ bucket' = { o \in bucket : o.name # name }
         /\ peer' = [peer EXCEPT !.staged = peer.staged \ {name}]
    /\ UNCHANGED << requestVars, bulk, outcomes, legacy, run, now, jobVars,
                    streamState, frames, store, ef, uploadCalls, invokeCalls, inflight, faults,
                    firstRun >>

\* Date.now() moves on by a millisecond.
Tick ==
    /\ now < MaxNow
    /\ now' = now + 1
    /\ UNCHANGED << inputVars, run, jobVars, streamState, frames, bucket,
                    store, ef, uploadCalls, invokeCalls, inflight, faults,
                    firstRun >>

InitStaging ==
    /\ mode = "json"
    /\ fileState = "ok"
    /\ fileLines \in Files(StagingMaxRows, {JapaneseHeaderLine})
    /\ chunkSize = 1
    /\ batchSize = BATCH_SIZE
    /\ run = 1
    /\ now = 1
    /\ FreshJob
    /\ bucket = {}
    /\ store = {}
    /\ faults = 0
    /\ firstRun = NoFirstRun
    /\ peer = PeerIdle
    /\ bulk = BulkOff
    /\ outcomes = {}
    /\ legacy = LegacyOff
    /\ decoder = DecoderOff

NextStaging ==
    \/ Receive
    \/ Prepare
    \/ LoopHead
    \/ UploadReturns
    \/ EfDownload
    \/ EfBatch
    \/ EfFinish
    \/ EfKilled
    \/ InvokeReturns
    \/ DelayDone
    \/ Finish
    \/ PeerStages
    \/ PeerApplied
    \/ Tick

SpecStaging == InitStaging /\ [][NextStaging]_vars


\* ------------------------------------------------- batches of several rows

\* A job in the JSON mode on a file of data rows, with chunks of several
\* batches and batches of several rows.
InitBatches ==
    /\ mode = "json"
    /\ fileState = "ok"
    /\ fileLines \in { <<JapaneseHeaderLine>> \o body :
                          body \in SeqsUpTo(PlainRows, BatchesMaxRows) }
    /\ chunkSize \in 1..BatchesMaxChunkSize
    /\ batchSize \in 1..BatchesMaxBatchSize
    /\ run = 1
    /\ now = 1
    /\ FreshJob
    /\ bucket = {}
    /\ store = {}
    /\ faults = 0
    /\ firstRun = NoFirstRun
    /\ peer = PeerIdle
    /\ bulk = BulkOff
    /\ outcomes = {}
    /\ legacy = LegacyOff
    /\ decoder = DecoderOff

NextBatches ==
    \/ Receive
    \/ Prepare
    \/ LoopHead
    \/ UploadReturns
    \/ EfDownload
    \/ EfBatch
    \/ EfFinish
    \/ EfKilled
    \/ InvokeReturns
    \/ DelayDone
    \/ Finish

SpecBatches == InitBatches /\ [][NextBatches]_vars


\* -------------------------------------------------------- the legacy route

\* INSERT of one row: the statement has no conflict clause.
InsertRow(table, p) ==
    table \cup {[id |-> Cardinality(table) + 1, key |-> p.key, val |-> p.val]}

RECURSIVE InsertRows(_, _, _)
InsertRows(table, batch, k) ==
    IF k > Len(batch)
    THEN table
    ELSE InsertRows(InsertRow(table, batch[k]), batch, k + 1)

\* A row of the batch carries a key that a record of the table or another
\* row of the batch carries: the UNIQUE constraint refuses the statement.
DuplicateKey(table, batch) ==
    \/ TouchesTwice(batch)
    \/ \E k \in 1..Len(batch) : \E r \in table : Conflicts(r.key, batch[k].key)

\* batches.push(productionData.slice(i, i + BATCH_SIZE))
RECURSIVE LegacyBatches(_, _)
LegacyBatches(productionData, i) ==
    IF i < Len(productionData)
    THEN << Slice(productionData, i, i + BATCH_SIZE) >>
         \o LegacyBatches(productionData, i + BATCH_SIZE)
    ELSE << >>

\* POST of the legacy route up to processBatches: the validations, the
\* header replacement, the parse (header: true, skipEmptyLines: true), the
\* conversion of the rows and the split into batches.
LegacyReceive ==
    /\ legacy.pc = "formData"
    /\ IF fileState # "ok"
       THEN legacy' = [legacy EXCEPT
                         !.pc = "done",
                         !.response = [kind |-> "rejected", status |-> 400]]
       ELSE LET productionData == ParseProductions(replaceCSVHeaders(fileLines))
            IN  IF Len(productionData) = 0
                THEN legacy' = [legacy EXCEPT
                                  !.pc = "done",
                                  !.response = [kind |-> "nodata", status |-> 400]]
                ELSE legacy' = [legacy EXCEPT
                                  !.pc = "insert",
                                  !.batches = LegacyBatches(productionData, 0)]
    /\ UNCHANGED << requestVars, peer, bulk, outcomes, run, now, jobVars,
                    streamState, frames, bucket, store, ef, uploadCalls,
                    invokeCalls, inflight, faults, firstRun >>

\* One turn of the loop of processBatches: insert(batches[i]).select('id')
\* raced against the timeout.  An error of the statement or the timeout ends
\* the loop; after a timeout the statement may still be carried out.
LegacyInsert ==
    /\ legacy.pc = "insert"
    /\ \E ok \in BOOLEAN, carriedOut \in BOOLEAN :
         LET batch == legacy.batches[legacy.i + 1]
             refused == DuplicateKey(store, batch)
         IN  /\ ok \/ faults < MaxFaults
             /\ ok => carriedOut
             /\ faults' = IF ok THEN faults ELSE faults + 1
             /\ store' = IF carriedOut /\ ~refused
                         THEN InsertRows(store, batch, 1) ELSE store
             /\ IF ok /\ ~refused
                THEN legacy' =
                       [legacy EXCEPT
                          !.totalInserted = legacy.totalInserted + Len(batch),
                          !.writes = Append(legacy.writes,
                                            legacy.totalInserted + Len(batch)),
                          !.i = legacy.i + 1,
                          !.pc = IF legacy.i + 1 < Len(legacy.batches)
                                 THEN "insert" ELSE "final"]
                ELSE legacy' =
                       [legacy EXCEPT
                          !.success = FALSE,
                          !.pc = "final"]
    /\ UNCHANGED << requestVars, peer, bulk, outcomes, run, now, jobVars,
                    streamState, frames, bucket, ef, uploadCalls, invokeCalls,
                    inflight, firstRun >>

\* The final response of processBatches and writer.close().
LegacyFinish ==
    /\ legacy.pc = "final"
    /\ legacy' =
         [legacy EXCEPT
            !.pc = "done",
            !.response =
               IF legacy.success
               THEN [kind |-> "success", count |-> legacy.totalInserted]
               ELSE [kind |-> "error", insertedSoFar |-> legacy.totalInserted]]
    /\ UNCHANGED << requestVars, peer, bulk, outcomes, run, now, jobVars,
                    streamState, frames, bucket, store, ef, uploadCalls,
                    invokeCalls, inflight, faults, firstRun >>

\* The caller uploads the same file a second time.
LegacyResubmit ==
    /\ legacy.pc = "done"
    /\ legacy.run = 1
    /\ fileState = "ok"
    /\ legacy' = [LegacyOff EXCEPT !.pc = "formData", !.run = 2,
                                   !.first = legacy.response]
    /\ UNCHANGED << requestVars, peer, bulk, outcomes, run, now, jobVars,
                    streamState, frames, bucket, store, ef, uploadCalls,
                    invokeCalls, inflight, faults, firstRun >>

\* A request arrives at the legacy route.
InitLegacy ==
    /\ mode = "json"
    /\ \/ /\ fileState = "ok"
          /\ fileLines \in Files(MaxRows, {JapaneseHeaderLine})
       \/ /\ fileState \in {"none", "notcsv"}
          /\ fileLines = <<BlankLine>>
    /\ chunkSize = 1
    /\ batchSize = BATCH_SIZE
    /\ run = 1
    /\ now = 1
    /\ pc = "off"
    /\ dataRows = << >>
    /\ chunks = << >>
    /\ chunkNumber = 1
    /\ chunkFileName = NoName
    /\ chunkResults = << >>
    /\ totalInserted = 0
    /\ totalUpdated = 0
    /\ totalErrors = 0
    /\ report = NoReport
    /\ streamState = "none"
    /\ frames = << >>
    /\ ef = EfIdle
    /\ uploadCalls = << >>
    /\ invokeCalls = << >>
    /\ inflight = {}
    /\ bucket = {}
    /\ store = {}
    /\ faults = 0
    /\ firstRun = NoFirstRun
    /\ peer = PeerIdle
    /\ bulk = BulkOff
    /\ outcomes = {}
    /\ legacy = [LegacyOff EXCEPT !.pc = "formData"]
    /\ decoder = DecoderOff

NextLegacy ==
    \/ LegacyReceive
    \/ LegacyInsert
    \/ LegacyFinish
    \/ LegacyResubmit

SpecLegacy == InitLegacy /\ [][NextLegacy]_vars


\* ----------------------------------------- two jobs writing to one table

\* The rows of the other request's file: it shares the business key k1 with
\* the job's file, under another payload, and carries a row without key.
PeerRows ==
    { [kind |-> "row", key |-> "k1", val |-> "b"],
      [kind |-> "row", key |-> "",   val |-> "a"] }

\* An invocation of the other request upserts the row of its next chunk: one
\* atomic INSERT ... ON CONFLICT of the table, whenever it comes.
PeerUpserts ==
    /\ Len(peer.applied) < PeerChunks
    /\ \E row \in PeerRows :
         /\ store' = UpsertRows(store, <<Production(row)>>, 1)
         /\ peer' = [peer EXCEPT !.applied = Append(peer.applied, Production(row))]
    /\ UNCHANGED << requestVars, bulk, outcomes, legacy, run, now, jobVars, streamState,
                    frames, bucket, ef, uploadCalls, invokeCalls, inflight,
                    faults, firstRun >>

\* The steps of the job and of the collaborators it waits for.
JobStep ==
    \/ Receive
    \/ Prepare
    \/ LoopHead
    \/ UploadReturns
    \/ EfDownload
    \/ EfBatch
    \/ EfFinish
    \/ InvokeReturns
    \/ DelayDone
    \/ Finish

NextConcurrent ==
    \/ Receive
    \/ Prepare
    \/ LoopHead
    \/ UploadReturns
    \/ EfDownload
    \/ EfBatch
    \/ EfFinish
    \/ EfKilled
    \/ InvokeReturns
    \/ DelayDone
    \/ Finish
    \/ PeerUpserts

\* A job in the JSON mode, one row to the chunk, on a file whose rows carry
\* the payload a: the key k1, which the other file carries too, the key k2,
\* or no key.
InitConcurrent ==
    /\ mode = "json"
    /\ fileState = "ok"
    /\ fileLines \in { <<JapaneseHeaderLine>> \o body :
                          body \in SeqsUpTo(PlainRows, StagingMaxRows) }
    /\ chunkSize = 1
    /\ batchSize = BATCH_SIZE
    /\ run = 1
    /\ now = 1
    /\ FreshJob
    /\ bucket = {}
    /\ store = {}
    /\ faults = 0
    /\ firstRun = NoFirstRun
    /\ peer = PeerIdle
    /\ bulk = BulkOff
    /\ outcomes = {}
    /\ legacy = LegacyOff
    /\ decoder = DecoderOff

SpecConcurrent == InitConcurrent /\ [][NextConcurrent]_vars


\* ------------------------------------------ one request in either response mode

\* A call of a collaborator that fails: the upload of chunk n, the download
\* or the removal of its object inside the function, the upsert of the batch
\* at offset i, or the end of the invocation at offset i with no answer.
FaultAt(op, n, i) == [op |-> op, n |-> n, i |-> i]

Offsets == { i \in 0..MaxChunkSize : i % BATCH_SIZE = 0 }

Faults ==
    { FaultAt(op, n, 0) : op \in {"upload", "download", "remove"}, n \in 1..MaxRows }
    \cup { FaultAt(op, n, i) : op \in {"batch", "kill"}, n \in 1..MaxRows, i \in Offsets }

\* The call the job is at fails, by the outcomes fixed ahead.
Planned(op, i) == FaultAt(op, chunkNumber, i) \in outcomes

\* The step took a collaborator failure.
Injected == faults' = faults + 1

\* The collaborators answer as fixed ahead: a call fails exactly when it is
\* one of outcomes.
UploadAsPlanned == UploadReturns /\ (Injected <=> Planned("upload", 0))

EfDownloadAsPlanned == EfDownload /\ (Injected <=> Planned("download", 0))

EfBatchAsPlanned ==
    /\ ~Planned("kill", ef.i)
    /\ EfBatch
    /\ Injected <=> Planned("batch", ef.i)

EfFinishAsPlanned ==
    /\ ~Planned("kill", ef.i)
    /\ EfFinish
    /\ Injected <=> Planned("remove", 0)

EfKilledAsPlanned == Planned("kill", ef.i) /\ EfKilled

\* What the request in the JSON mode left: its answer, its per-chunk results
\* and the calls it issued.
JsonRun ==
    [ seen |-> TRUE, store |-> store, inserted |-> totalInserted,
      report |-> report, chunks |-> chunkResults, uploadCalls |-> uploadCalls,
      invokeCalls |-> invokeCalls ]

\* The request answered in the JSON mode is sent again with stream=true, to
\* the bucket, the table and the clock the first one found, the collaborators
\* answering as they did.
SameRequestStreamed ==
    /\ pc = "done"
    /\ run = 1
    /\ mode = "json"
    /\ mode' = "stream"
    /\ run' = 2
    /\ firstRun' = JsonRun
    /\ pc' = "formData"
    /\ dataRows' = << >>
    /\ chunks' = << >>
    /\ chunkNumber' = 1
    /\ chunkFileName' = NoName
    /\ chunkResults' = << >>
    /\ totalInserted' = 0
    /\ totalUpdated' = 0
    /\ totalErrors' = 0
    /\ report' = NoReport
    /\ streamState' = "readable"
    /\ frames' = << >>
    /\ uploadCalls' = << >>
    /\ invokeCalls' = << >>
    /\ bucket' = {}
    /\ store' = {}
    /\ faults' = 0
    /\ UNCHANGED << fileState, fileLines, chunkSize, batchSize, decoder, peer, bulk,
                    outcomes, legacy, now, ef, inflight >>

InitModes ==
    /\ mode = "json"
    /\ \/ /\ fileState = "ok"
          /\ fileLines \in Files(MaxRows, {JapaneseHeaderLine})
          /\ chunkSize \in 1..MaxChunkSize
       \/ /\ fileState \in {"none", "notcsv"}
          /\ fileLines = <<BlankLine>>
          /\ chunkSize = 1
    /\ batchSize = BATCH_SIZE
    /\ run = 1
    /\ now = 1
    /\ FreshJob
    /\ bucket = {}
    /\ store = {}
    /\ faults = 0
    /\ firstRun = NoFirstRun
    /\ peer = PeerIdle
    /\ bulk = BulkOff
    /\ outcomes \in { o \in SUBSET Faults : Cardinality(o) <= MaxFaults }
    /\ legacy = LegacyOff
    /\ decoder = DecoderOff

NextModes ==
    \/ Receive
    \/ Prepare
    \/ LoopHead
    \/ UploadAsPlanned
    \/ EfDownloadAsPlanned
    \/ EfBatchAsPlanned
    \/ EfFinishAsPlanned
    \/ EfKilledAsPlanned
    \/ InvokeReturns
    \/ DelayDone
    \/ Finish
    \/ Cancel
    \/ SameRequestStreamed

SpecModes == InitModes /\ [][NextModes]_vars

\* ------------------------------------------------------------ the decoder

GarbledHeaderLine == [kind |-> "hdr", key |-> "garbled", val |-> ""]

\* The labels the handler passes to new TextDecoder(label).
Labels == {"shift-jis", "utf-8"}

\* What a decoder leaves of text it cannot read: "replacement" when U+FFFD
\* stands in the output, "mojibake" when every byte found a character.
Damages == {"replacement", "mojibake"}

\* The bytes of a file: the text the producer wrote, the encoding it was
\* written in, and what the Shift-JIS decoder leaves of bytes written in
\* another encoding.  The UTF-8 decoder leaves U+FFFD of any byte sequence
\* that is not UTF-8.
FileBytes(n) ==
    { b \in [ text : Files(n, {JapaneseHeaderLine}),
              encoding : {"shift-jis", "utf-8", "euc-jp"},
              misread : Damages \cup {"none"} ] :
        (b.encoding = "shift-jis") = (b.misread = "none") }

\* The builds of the runtime: TextDecoder knows 'utf-8' everywhere, and
\* 'shift-jis' where the legacy encodings are compiled in; the constructor
\* throws a RangeError for a label it does not know.
Runtimes == { Labels, {"utf-8"} }

\* The text read in a wrong encoding: the line feeds and the commas are
\* ASCII bytes and stay where they were, as does the ASCII text of the
\* rows; the Japanese text of the first line is lost.
Garbled(lines) ==
    [ k \in DOMAIN lines |->
        IF lines[k].kind = "hdr" THEN GarbledHeaderLine ELSE lines[k] ]

\* new TextDecoder(label).decode(arrayBuffer), without { fatal: true }: a
\* byte sequence the encoding does not know is replaced, nothing is thrown.
TextDecoderDecode(label, bytes) ==
    IF label = bytes.encoding
    THEN [lines |-> bytes.text, damage |-> "none"]
    ELSE [ lines |-> Garbled(bytes.text),
           damage |-> IF label = "utf-8" THEN "replacement" ELSE bytes.misread ]

\* The try / catch / catch around the decoders: the catch runs when the
\* statement before it throws, and file.text() reads the bytes as UTF-8.
Decode ==
    /\ pc = "arrayBuffer"
    /\ decoder.pc = "bytes"
    /\ LET used == IF "shift-jis" \in decoder.supported THEN "shift-jis"
                   ELSE IF "utf-8" \in decoder.supported THEN "utf-8"
                   ELSE "text"
           out == TextDecoderDecode(IF used = "text" THEN "utf-8" ELSE used,
                                    decoder.bytes)
       IN  /\ fileLines' = out.lines
           /\ decoder' = [decoder EXCEPT !.pc = "decoded", !.used = used,
                                         !.damage = out.damage]
    /\ UNCHANGED << mode, fileState, chunkSize, batchSize, peer, bulk, outcomes,
                    legacy, run, now, jobVars, streamState, frames, bucket,
                    store, ef, uploadCalls, invokeCalls, inflight, faults,
                    firstRun >>

\* The request has passed the validations; its bytes are to be decoded.
InitDecoder ==
    /\ mode \in {"json", "stream"}
    /\ fileState = "ok"
    /\ fileLines = << >>
    /\ chunkSize \in 1..MaxChunkSize
    /\ batchSize = BATCH_SIZE
    /\ run = 1
    /\ now = 1
    /\ pc = "arrayBuffer"
    /\ dataRows = << >>
    /\ chunks = << >>
    /\ chunkNumber = 1
    /\ chunkFileName = NoName
    /\ chunkResults = << >>
    /\ totalInserted = 0
    /\ totalUpdated = 0
    /\ totalErrors = 0
    /\ report = NoReport
    /\ streamState = IF mode = "stream" THEN "readable" ELSE "none"
    /\ frames = Emit(<< >>, "status", 0)
    /\ ef = EfIdle
    /\ uploadCalls = << >>
    /\ invokeCalls = << >>
    /\ inflight = {}
    /\ bucket = {}
    /\ store = {}
    /\ faults = 0
    /\ firstRun = NoFirstRun
    /\ peer = PeerIdle
    /\ bulk = BulkOff
    /\ outcomes = {}
    /\ legacy = LegacyOff
    /\ \E b \in FileBytes(DecoderMaxRows), rt \in Runtimes :
           decoder = [DecoderOff EXCEPT !.pc = "bytes", !.bytes = b,
                                        !.supported = rt]

NextDecoder ==
    \/ Decode
    \/ decoder.pc = "decoded" /\ Prepare

SpecDecoder == InitDecoder /\ [][NextDecoder]_vars

\* ------------------------------------------- calls that return or throw

\* Every awaited call of the handler returns or throws, and the handler
\* runs on from there: a step of the job that can be taken is taken in the
\* end.  The subscriber and the caller are under no such obligation.
SpecFair == Init /\ [][Next]_vars /\ WF_vars(JobStep)


\* ----------------------------------------------------------------- claims

\* The data rows of the submitted file, read off the file itself: the
\* non-blank lines after its first line.
FileDataRows == SelectSeq(Tail(fileLines), NonBlank)

Ceil(n, c) == (n + c - 1) \div c

\* The chunker has run.
ChunksBuilt ==
    \/ pc \in {"loop", "upload", "invoke", "delay", "finish"}
    \/ pc = "done" /\ report.kind \in {"success", "error"}

\* The data rows of chunk k: all its lines but the header line.
ChunkRows(k) == Tail(chunks[k])

RECURSIVE RowsBefore(_)
RowsBefore(k) == IF k <= 1 THEN 0 ELSE RowsBefore(k - 1) + Len(ChunkRows(k - 1))

\* Chunk k carries the data row at position p of the file.
Carries(k, p) ==
    /\ RowsBefore(k) < p
    /\ p <= RowsBefore(k) + Len(ChunkRows(k))
    /\ ChunkRows(k)[p - RowsBefore(k)] = FileDataRows[p]

\* C4: partition completeness: N data rows under the ceiling C give
\* ceil(N / C) chunks (none when N = 0), and every data row of the file is
\* carried by exactly one chunk.
C4_PartitionComplete ==
    ChunksBuilt =>
        /\ Len(chunks) = Ceil(Len(FileDataRows), chunkSize)
        /\ RowsBefore(Len(chunks) + 1) = Len(FileDataRows)
        /\ \A p \in 1..Len(FileDataRows) :
               Cardinality({ k \in 1..Len(chunks) : Carries(k, p) }) = 1

\* Three data rows and a blank line under the ceiling 2: a full and a shorter chunk.
C4_Witness ==
    /\ ChunksBuilt
    /\ Len(FileDataRows) = 3
    /\ chunkSize = 2
    /\ Len(chunks) = 2
    /\ Len(fileLines) > 4

RECURSIVE ConcatRows(_)
ConcatRows(k) == IF k = 0 THEN << >> ELSE ConcatRows(k - 1) \o ChunkRows(k)

\* C5: order preservation: the data rows of the chunks, concatenated in
\* ascending sequence number, are the data rows of the file in their order.
C5_OrderPreserved == ChunksBuilt => ConcatRows(Len(chunks)) = FileDataRows

\* Three chunks of rows that differ from one another.
C5_Witness ==
    /\ ChunksBuilt
    /\ Len(chunks) = 3
    /\ Len(FileDataRows) = 3
    /\ FileDataRows[1] # FileDataRows[2]
    /\ FileDataRows[2] # FileDataRows[3]

\* C6: every chunk is self-contained and bounded: its first line is the
\* canonical header line, and it carries at least one and at most C data rows.
C6_ChunkBounded ==
    ChunksBuilt =>
        \A k \in 1..Len(chunks) :
            /\ chunks[k][1] = EnglishHeaderLine
            /\ Len(ChunkRows(k)) >= 1
            /\ Len(ChunkRows(k)) <= chunkSize
            /\ \A j \in 1..Len(ChunkRows(k)) : ChunkRows(k)[j].kind = "row"

\* A garbled first line, a full chunk and a shorter last chunk.
C6_Witness ==
    /\ ChunksBuilt
    /\ fileLines[1].key = "garbled"
    /\ Len(chunks) = 2
    /\ Len(ChunkRows(1)) = chunkSize
    /\ Len(ChunkRows(2)) < chunkSize


\* ------------------------------------------------ claims: the orchestration

\* The job has delivered its terminal report.
JobDone == pc = "done" /\ fileState = "ok"

\* The job is over: it reported, or start() rejected.
JobEnded == pc \in {"done", "aborted"} /\ fileState = "ok"

\* The chunks the file must give.
ExpectedChunks == Ceil(Len(FileDataRows), chunkSize)

Recorded == 1..Len(chunkResults)

\* An entry written by the catch of the chunk loop: the chunk failed.
EntryFailed(e) ==
    /\ e.errors # << >>
    /\ e.errors[1].what \in {"upload", "edge", "enqueue"}

\* An entry with errors reported by an invocation that succeeded.
EntryRowErrors(e) == e.errors # << >> /\ e.errors[1].what = "batch"

HasResult(n) == \E j \in Recorded : chunkResults[j].chunkNumber = n

InvokeFailed(n) ==
    \E j \in Recorded : chunkResults[j].errors = <<ChunkError("edge", n)>>

UploadFailed(n) ==
    \E j \in Recorded : chunkResults[j].errors = <<ChunkError("upload", n)>>

Staged(n) == \E c \in 1..Len(uploadCalls) : uploadCalls[c] = n

Invoked(n) == \E c \in 1..Len(invokeCalls) : invokeCalls[c] = n

NoChunkFailed == \A j \in Recorded : ~EntryFailed(chunkResults[j])

SomeChunkFailed == \E j \in Recorded : EntryFailed(chunkResults[j])

SomeChunkSucceeded == \E j \in Recorded : ~EntryFailed(chunkResults[j])

AllChunksFailed ==
    /\ chunkResults # << >>
    /\ \A j \in Recorded : EntryFailed(chunkResults[j])

\* The reconciled counts of the first j entries, summed.
RECURSIVE SumInserted(_)
SumInserted(j) ==
    IF j = 0 THEN 0 ELSE SumInserted(j - 1) + chunkResults[j].inserted

\* The same, over the entries of the invocations that succeeded.
RECURSIVE SumSucceeded(_)
SumSucceeded(j) ==
    IF j = 0
    THEN 0
    ELSE SumSucceeded(j - 1)
         + (IF EntryFailed(chunkResults[j]) THEN 0 ELSE chunkResults[j].inserted)

\* C1: failure isolation, both response modes: when the invocation of chunk
\* k fails, every chunk k+1..n is still staged and (its staging granted)
\* invoked, and at job end the total reconciled count is the sum of the
\* counts of the chunks whose invocation succeeded.
C1_FailureIsolation ==
    JobEnded =>
        /\ \A k \in 1..ExpectedChunks :
               InvokeFailed(k) =>
                   \A n \in (k + 1)..ExpectedChunks :
                       Staged(n) /\ (Invoked(n) \/ UploadFailed(n))
        /\ totalInserted = SumSucceeded(Len(chunkResults))

\* A staged object whose chunk has resolved: of an earlier submission, or of
\* a chunk of this one whose result is recorded.
Resolved(name) == name.ts < now \/ (name.ts = now /\ HasResult(name.n))

\* C2: the staged object of every resolved chunk is deleted, whether the
\* chunk succeeded or failed: no object of a resolved chunk is in the bucket.
C2_StagedObjectsDeleted == \A o \in bucket : ~Resolved(o.name)

\* C3: in streaming mode a subscriber that cancels the stream does not stop
\* the job: it ends with its terminal report, every chunk staged in order.
C3_DisconnectDoesNotStopJob ==
    (Streaming /\ JobEnded) =>
        /\ pc = "done"
        /\ uploadCalls = [k \in 1..ExpectedChunks |-> k]

\* The table seen by business key: the rows that carry one, without their ids.
ByKey(table) ==
    { [key |-> r.key, val |-> r.val] : r \in { x \in table : x.key # NULL } }

\* C7: idempotent reconciliation: after the same file was submitted twice
\* and both submissions succeeded with no collaborator fault, the store seen by business key is the one
\* the first submission left, and the reconciled counts of the two runs do
\* not add up to twice the rows really inserted.
C7_Idempotent ==
    ( /\ run = 2
      /\ JobDone
      /\ faults = 0
      /\ report.kind = "success"
      /\ firstRun.report.kind = "success" ) =>
        /\ ByKey(store) = ByKey(firstRun.store)
        /\ Cardinality(store) > 0 =>
               firstRun.inserted + totalInserted # 2 * Cardinality(store)

C10_Sequential ==
    /\ Cardinality(inflight) <= 1
    /\ \A c \in 1..Len(uploadCalls) : uploadCalls[c] = c
    /\ \A c \in 1..Len(invokeCalls) :
           /\ Staged(invokeCalls[c])
           /\ \A d \in 1..(c - 1) : invokeCalls[d] < invokeCalls[c]
    /\ \A n \in 1..Len(uploadCalls) : \A m \in 1..(n - 1) : HasResult(m)
    /\ \A call \in inflight :
           /\ call.n = Len(uploadCalls)
           /\ ~HasResult(call.n)

\* The second chunk is being applied, the first has its result.
C10_Witness ==
    /\ pc = "invoke"
    /\ inflight = {InvokeCall(2)}
    /\ ef.pc = "batch"
    /\ HasResult(1)


\* ------------------------------------------------- claims: the event stream

\* A frame that announces the outcome of one chunk.
IsChunkFrame(f) == f.kind \in {"chunkDone", "chunkError"}

ChunkFrames == SelectSeq(frames, IsChunkFrame)

HasChunkFrame(n) ==
    \E p \in 1..Len(frames) : IsChunkFrame(frames[p]) /\ frames[p].n = n

\* The frames of the chunks come one per chunk, in ascending sequence number.
ChunkFramesInOrder ==
    \A p \in 1..Len(ChunkFrames) :
        \A q \in 1..(p - 1) : ChunkFrames[q].n < ChunkFrames[p].n

\* The frame of chunk n is on the stream before chunk n+1 is staged, and
\* before the terminal report when n is the last chunk.
ChunkFrameBeforeNext ==
    \A n \in 1..ExpectedChunks :
        (Staged(n + 1) \/ (JobDone /\ HasResult(n))) => HasChunkFrame(n)

\* C11, as claimed: in streaming mode a chunk-complete event is emitted after
\* each chunk resolves and before the next is staged, in the order the chunks
\* resolved, and it carries the cumulative aggregate so far.
C11_Original ==
    Streaming =>
        /\ ChunkFrameBeforeNext
        /\ ChunkFramesInOrder
        /\ \A p \in 1..Len(ChunkFrames) :
               /\ ChunkFrames[p].kind = "chunkDone"
               /\ ChunkFrames[p].inserted = SumInserted(ChunkFrames[p].n)

\* C11, amended: in streaming mode a status frame for chunk n is emitted
\* after chunk n has its result and before chunk n+1 is staged, the frames of
\* the chunks in ascending sequence number; the frame carries the figures of
\* that chunk alone (its reconciled count and its number of errors, or the
\* error message when the chunk failed), not the cumulative aggregate.
C11_ChunkFrames ==
    Streaming =>
        /\ ChunkFrameBeforeNext
        /\ ChunkFramesInOrder
        /\ \A p \in 1..Len(ChunkFrames) :
               LET f == ChunkFrames[p]
               IN  /\ f.n <= Len(chunkResults)
                   /\ chunkResults[f.n].chunkNumber = f.n
                   /\ IF f.kind = "chunkDone"
                      THEN /\ ~EntryFailed(chunkResults[f.n])
                           /\ f.inserted = chunkResults[f.n].inserted
                           /\ f.errors = Len(chunkResults[f.n].errors)
                      ELSE /\ EntryFailed(chunkResults[f.n])
                           /\ chunkResults[f.n].errors = <<f.message>>

\* Two chunks applied: the frame of the second carries its own count, 1,
\* while the job has reconciled 2.
C11_Witness ==
    /\ Streaming
    /\ Len(ChunkFrames) = 2
    /\ ChunkFrames[1].kind = "chunkDone"
    /\ ChunkFrames[2].kind = "chunkDone"
    /\ ChunkFrames[2].inserted = 1
    /\ totalInserted = 2

\* A frame that ends a stream: the final result, or the error of a submit
\* that could not start.
IsTerminalFrame(f) == f.kind \in {"complete", "completeError", "error"}

\* The request is over: answered, or start() rejected.
RequestEnded == pc \in {"done", "aborted"}

\* C12: every event stream ends with exactly one terminal frame, which is
\* its last frame, on a stream that is closed after it; for a job that ran,
\* the terminal report carries the total rows and the total reconciled.
C12_TerminalFrame ==
    (Streaming /\ RequestEnded) =>
        /\ streamState = "closed"
        /\ frames # << >>
        /\ IsTerminalFrame(frames[Len(frames)])
        /\ \A p \in 1..(Len(frames) - 1) : ~IsTerminalFrame(frames[p])
        /\ fileState = "ok" =>
               /\ report.kind \in {"success", "error"}
               /\ report.totalRecords = Len(FileDataRows)


\* ----------------------------------------------------- claims: staged names

\* The name the job is staging its chunk under belongs to an object that is
\* in the bucket already.
NameTaken == pc = "upload" /\ \E o \in bucket : o.name = chunkFileName

\* C13: staged names are unique per job and sequence number: the name a job
\* stages a chunk under is never the name of a staged object, of its own or
\* of a request running at the same time, and no upload of either request is
\* refused because its name is taken.
C13_UniqueNames ==
    /\ ~NameTaken
    /\ peer.refused = {}
    /\ \A j \in Recorded :
           (faults = 0 /\ chunkResults[j].errors # << >>) =>
               chunkResults[j].errors[1].what # "upload"


\* --------------------------------------------- claims: the per-chunk results

\* The list holds one entry per sequence number, in ascending order.
OneEntryEach == \A j \in Recorded : chunkResults[j].chunkNumber = j

\* Within one submission, what is recorded stays as it was recorded.
EntriesKept ==
    run' = run =>
        \A j \in Recorded :
            /\ j <= Len(chunkResults')
            /\ chunkResults'[j] = chunkResults[j]

\* C14: exactly one result is produced per chunk and it is immutable: the
\* list never holds two entries of one chunk, a recorded entry is never
\* changed, and at job end the list holds one entry for each of 1..n, in
\* ascending order.
C14_OneResultPerChunk ==
    /\ [](OneEntryEach /\ (JobEnded => Len(chunkResults) = ExpectedChunks))
    /\ [][EntriesKept]_vars


\* ------------------------------------------------ claims: the empty job

\* The submitted file carries no data row: its first line alone, or blank
\* lines after it.
ZeroRows == fileState = "ok" /\ Len(FileDataRows) = 0

CallsOf(calls, n) == Cardinality({ c \in 1..Len(calls) : calls[c] = n })

EntriesOf(n) == { j \in Recorded : chunkResults[j].chunkNumber = n }

\* C16: when the staging of chunk k fails, the upload was attempted exactly
\* once, the function is not invoked for chunk k, one failed result with the
\* reconciled count 0 and the error message is recorded for chunk k, and the
\* job continues with the chunks after k.
C16_StagingFailure ==
    \A k \in 1..ExpectedChunks :
        UploadFailed(k) =>
            /\ CallsOf(uploadCalls, k) = 1
            /\ ~Invoked(k)
            /\ Cardinality(EntriesOf(k)) = 1
            /\ \A j \in EntriesOf(k) :
                   /\ chunkResults[j].inserted = 0
                   /\ chunkResults[j].errors = <<ChunkError("upload", k)>>
            /\ JobEnded => \A n \in (k + 1)..ExpectedChunks : Staged(n)

\* The invocation in flight has ended without the answer of a run that went
\* through: a timeout, a transport error, an error response.
InvocationFailed == ef.pc = "failed"

\* The chunked route takes the failed invocation of its chunk: one failed
\* entry for that chunk is appended, nothing is added to the reconciled
\* total, and the loop goes on unless its status frame cannot be enqueued.
ChunkFailureRecorded ==
    (pc = "invoke" /\ InvocationFailed /\ ef'.pc = "idle") =>
        /\ chunkResults' =
               Append(chunkResults,
                      [ chunkNumber |-> chunkNumber,
                        records |-> Len(chunks[chunkNumber]) - 1,
                        inserted |-> 0, updated |-> 0,
                        errors |-> <<ChunkError("edge", chunkNumber)>> ])
        /\ totalInserted' = totalInserted
        /\ totalErrors' = totalErrors + 1
        /\ pc' = IF EnqueueThrows THEN "aborted" ELSE "loop"

\* The bulk route takes the failed invocation: triggerBulkProcessing returns
\* a result with success false, no rows and one error message, from which
\* the failure is answered.
BulkFailureReturned ==
    (bulk.pc = "invoke" /\ InvocationFailed /\ ef'.pc = "idle") =>
        /\ bulk'.pc = "done"
        /\ bulk'.processResult.success = FALSE
        /\ bulk'.processResult.inserted = 0
        /\ Len(bulk'.processResult.errors) = 1
        /\ bulk'.response.kind = "error"
        /\ bulk'.response.processed = 0

\* C17: an invocation failure never leaves the invoker as an exception: the
\* caller receives a well-formed result with success false, the reconciled
\* count 0 and an error message, and the orchestrator records it as the
\* result of that chunk.
C17_InvocationFailureContained ==
    [][ChunkFailureRecorded /\ BulkFailureReturned]_vars

\* The function was killed after it had upserted a row: the bulk route holds
\* the failure as a result and has answered it.
C17_Witness ==
    /\ bulk.pc = "done"
    /\ bulk.invokes = 1
    /\ bulk.processResult.success = FALSE
    /\ bulk.processResult.inserted = 0
    /\ bulk.response.kind = "error"
    /\ store # {}


\* ------------------------------------------ claims: a submit that cannot start

\* The request carries no file, or a file whose name does not end in .csv.
CannotStart == fileState # "ok"

\* Nothing was staged, the function was never invoked, the store is as it was.
NoSideEffect ==
    /\ uploadCalls = << >> /\ invokeCalls = << >>
    /\ inflight = {} /\ ef = EfIdle
    /\ bucket = {} /\ store = {}

\* C18: a submit that cannot start is reported as failed without any side
\* effect; in streaming mode one error frame is emitted and the stream is
\* closed.
C18_RejectedWithoutEffect ==
    CannotStart =>
        /\ NoSideEffect
        /\ pc = "done" =>
               /\ report.kind = "rejected"
               /\ ~Streaming => report.status = 400
               /\ Streaming =>
                      /\ frames = <<Frame("error", 0)>>
                      /\ streamState = "closed"


\* ------------------------------------------------ claims: the terminal report

\* The reconciled count the report states, under the name its body gives it.
ReportedReconciled ==
    IF report.kind = "success" THEN report.inserted + report.updated
    ELSE report.processed

\* Chunk k did not go through: its upload was not followed by an invocation,
\* or its recorded result carries errors.
ChunkInError(k) ==
    \/ Staged(k) /\ ~Invoked(k)
    \/ \E j \in EntriesOf(k) : chunkResults[j].errors # << >>

\* The report holds an entry that names chunk k, the number of its rows and
\* its error messages.
ReportNames(k) ==
    /\ report.kind = "error"
    /\ \E j \in 1..Len(report.chunks) :
           /\ report.chunks[j].chunkNumber = k
           /\ report.chunks[j].records = Len(ChunkRows(k))
           /\ report.chunks[j].errors # << >>

\* C19: the final report of a job always includes the total row count and
\* the reconciled count, and for every chunk that failed an entry naming its
\* sequence number, its row count and its error messages; the sequence
\* number and the ceiling give the slice of the file to submit again.
C19_ReportBreakdown ==
    JobDone =>
        /\ report.totalRecords = Len(FileDataRows)
        /\ ReportedReconciled = totalInserted
        /\ \A k \in 1..ExpectedChunks :
               /\ RowsBefore(k) = (k - 1) * chunkSize
               /\ ChunkInError(k) => ReportNames(k)

\* Of two chunks the first could not be staged and the second reconciled
\* its row: the report holds both, the first with its error.
C19_Witness ==
    /\ JobDone
    /\ ExpectedChunks = 2
    /\ UploadFailed(1)
    /\ totalInserted = 1
    /\ report.kind = "error"
    /\ Len(report.chunks) = 2
    /\ report.chunks[1].errors = <<ChunkError("upload", 1)>>

\* The fields of the two bodies.
SuccessFields ==
    {"kind", "status", "totalRecords", "inserted", "updated", "fileName", "chunks"}

ErrorFields ==
    {"kind", "status", "totalRecords", "processed", "errors", "chunks"}

\* Both submissions of the file were answered with a terminal report.
TwoReports ==
    /\ run = 2
    /\ JobDone
    /\ firstRun.report.kind \in {"success", "error"}

BothModesEnded == run = 2 /\ JobEnded /\ firstRun.seen

\* The totals a terminal report states.
ReportTotals(r) ==
    [ kind |-> r.kind, totalRecords |-> r.totalRecords,
      reconciled |-> IF r.kind = "success" THEN r.inserted + r.updated
                     ELSE r.processed,
      chunks |-> r.chunks ]

\* C21: the two response modes converge: for the same file and the same
\* collaborator outcomes, the terminal frame of the streaming mode reports
\* the totals and the per-chunk results of the JSON body, and the same
\* sequence of stage and invoke calls was issued.
C21_ModesConverge ==
    BothModesEnded =>
        /\ pc = "done"
        /\ frames[Len(frames)].kind \in {"complete", "completeError"}
        /\ ReportTotals(report) = ReportTotals(firstRun.report)
        /\ chunkResults = firstRun.chunks
        /\ uploadCalls = firstRun.uploadCalls
        /\ invokeCalls = firstRun.invokeCalls


\* ------------------------------------------------ claims: concurrent jobs

\* No two records of the table carry the same business key.
KeysUnique ==
    \A r1, r2 \in store : Conflicts(r1.key, r2.key) => r1 = r2

\* C22: under any interleaving of the chunk applications of two concurrent
\* jobs whose files share business keys, the table never holds two records
\* with the same non-null production_order_number, and neither job ever
\* waits for the other: while a job has not ended, its next step can be
\* taken whatever the other job is doing.
C22_ConcurrentUpserts ==
    /\ KeysUnique
    /\ ~JobEnded => ENABLED JobStep
    /\ Len(peer.applied) < PeerChunks => ENABLED PeerUpserts

\* Both jobs have upserted the key k1, each with its payload, the other job
\* with a chunk still to come; the job has ended with both its rows
\* reconciled and the table holds one record of k1 beside that of k2.
C22_Witness ==
    /\ JobDone
    /\ report.kind = "success"
    /\ Len(FileDataRows) = 2
    /\ FileDataRows[1].key = "k1"
    /\ FileDataRows[1].val = "a"
    /\ peer.applied = <<[key |-> "k1", val |-> "b"]>>
    /\ \E r \in store : r.key = "k2"
    /\ Cardinality({ r \in store : r.key = "k1" }) = 1


\* ------------------------------------------------ claims: the legacy route

\* The productions of the uploaded file.
FileProductions == ParseProductions(fileLines)

\* The same file was uploaded twice to the legacy route, the first upload
\* was answered as saved and no call of either upload failed.
UploadedAgain ==
    /\ legacy.run = 2
    /\ legacy.pc = "done"
    /\ legacy.first.kind = "success"
    /\ faults = 0

\* C23: the legacy route handles duplicates by upsert: a file whose keys are
\* in the table already, such as the same file uploaded a second time, is
\* saved without a duplicate-key error and the table holds one record per key.
C23_LegacyUpsert ==
    UploadedAgain =>
        /\ legacy.response.kind = "success"
        /\ \A k \in 1..Len(FileProductions) :
               FileProductions[k].key # NULL =>
                   Cardinality({ r \in store : r.key = FileProductions[k].key }) = 1


\* -------------------------------------------------- claims: the bulk route

\* performBulkUpload has returned after staging the file.
BulkReturned == bulk.pc = "done" /\ bulk.uploadedFileName # NoName

\* C24: in the bulk route the uploaded file is removed from the bucket after
\* processing and also on errors: once performBulkUpload has returned, with
\* success or with failure, the object it staged is no longer in the bucket.
C24_BulkFileRemoved ==
    BulkReturned => ~\E o \in bucket : o.name = bulk.uploadedFileName


\* ------------------------------------------------ claims: the header line

\* The first lines a file may come with: a header in either spelling, or a
\* line that is no header at all.
FirstLines == RawHeaderLines \cup {BlankLine}

\* C25: header normalization is positional and stable: replaceCSVHeaders
\* returns the canonical header line of 26 fields followed by every line
\* after the first of its input, unmodified and in order, so that inputs
\* which differ in their first line only give the same output, and the
\* chunker works on the same header and the same data rows for them.
C25_HeaderPositional ==
    LET out == replaceCSVHeaders(fileLines)
    IN  /\ Len(ENGLISH_HEADERS) = 26
        /\ Len(out) = Len(fileLines)
        /\ out[1] = EnglishHeaderLine
        /\ \A k \in 2..Len(fileLines) : out[k] = fileLines[k]
        /\ \A h \in FirstLines :
               replaceCSVHeaders([fileLines EXCEPT ![1] = h]) = out
        /\ ChunksBuilt =>
               /\ dataRows = FilterLines(Tail(fileLines))
               /\ \A k \in 1..Len(chunks) : chunks[k][1] = EnglishHeaderLine

\* A file with a garbled first line, a blank line and two data rows has
\* been split: its rows are those after the first line, under the canonical
\* header.
C25_Witness ==
    /\ pc = "loop"
    /\ fileLines[1].key = "garbled"
    /\ Len(fileLines) = 4
    /\ fileLines[2] = BlankLine
    /\ dataRows = << fileLines[3], fileLines[4] >>
    /\ chunks # << >>
    /\ chunks[1][1] = EnglishHeaderLine


\* --------------------------------------------- claims: rows without a key

\* The productions the function makes of the data rows of chunk n.
ChunkProductions(n) == [k \in 1..Len(ChunkRows(n)) |-> Production(ChunkRows(n)[k])]

\* The batches of chunk n and the rows of its batch b.
BatchesOf(n) == Ceil(Len(ChunkRows(n)), batchSize)

BatchOf(n, b) == Slice(ChunkProductions(n), (b - 1) * batchSize, b * batchSize)

\* The entry holds an error of batch b.
BatchFailed(e, b) == \E k \in 1..Len(e.errors) : e.errors[k] = BatchError((b - 1) * batchSize)

\* Batch b of chunk n holds a row without business key.
HoldsBlankKey(n, b) == \E k \in 1..Len(BatchOf(n, b)) : BatchOf(n, b)[k].key = NULL

\* The rows of the batches of the entry's chunk that went through.
RECURSIVE RowsOfGoodBatches(_, _)
RowsOfGoodBatches(e, b) ==
    IF b = 0
    THEN 0
    ELSE RowsOfGoodBatches(e, b - 1)
         + (IF BatchFailed(e, b) THEN 0 ELSE Len(BatchOf(e.chunkNumber, b)))

\* An entry of an invocation that answered, in which the upsert of a batch
\* holding a row without business key failed.
BlankKeyRowFailed(e) ==
    /\ ~EntryFailed(e)
    /\ \E b \in 1..BatchesOf(e.chunkNumber) :
           BatchFailed(e, b) /\ HoldsBlankKey(e.chunkNumber, b)

\* A row without business key is counted and forwarded like any other: it
\* is a data row of its chunk, counted in the chunk's records and in
\* totalRecords, staged with its chunk and parsed by the function into a
\* production whose key is null.
BlankKeyForwarded ==
    ChunksBuilt =>
        /\ dataRows = FileDataRows
        /\ ConcatRows(Len(chunks)) = FileDataRows
        /\ \A j \in Recorded :
               chunkResults[j].records = Len(ChunkRows(chunkResults[j].chunkNumber))
        /\ JobDone => report.totalRecords = Len(FileDataRows)
        /\ \A o \in bucket : o.content = chunks[o.name.n]
        /\ ef.pc \in {"batch", "returned"} =>
               ef.productions = ChunkProductions(chunkNumber)

\* C26, as claimed: a row without business key is counted and forwarded,
\* and when it fails reconciliation its chunk is not aborted and the
\* remaining rows of the chunk are still reconciled.
C26_Original ==
    /\ BlankKeyForwarded
    /\ \A j \in Recorded :
           LET e == chunkResults[j]
           IN  (BlankKeyRowFailed(e) /\ Len(e.errors) = 1) =>
                   e.inserted >=
                       Cardinality({ k \in 1..e.records :
                                       ChunkProductions(e.chunkNumber)[k].key # NULL })

\* C26, amended: a row without business key is counted and forwarded; when
\* the upsert of its batch fails, the chunk is not aborted: the function
\* goes on with the other batches of the chunk and its answer is recorded as
\* the result of the chunk, with the error of that batch and the count of
\* the rows of the batches that went through; no row of the failed batch is
\* reconciled.
C26_BlankKeyBatch ==
    /\ BlankKeyForwarded
    /\ \A j \in Recorded :
           LET e == chunkResults[j]
           IN  BlankKeyRowFailed(e) =>
                   /\ e.inserted = RowsOfGoodBatches(e, BatchesOf(e.chunkNumber))
                   /\ \A k \in 1..Len(e.errors) :
                          \E b \in 1..BatchesOf(e.chunkNumber) :
                              e.errors[k] = BatchError((b - 1) * batchSize)
                   /\ e.inserted + Len(e.errors) * batchSize >= e.records

\* A chunk of three rows in batches of two: the batch of the row without key
\* and of k1 failed, the batch of k2 went through, and the job has ended with
\* one row reconciled and k1 not in the table.
C26_Witness ==
    /\ JobDone
    /\ batchSize = 2
    /\ Len(chunks) = 1
    /\ Len(ChunkRows(1)) = 3
    /\ ChunkRows(1)[1].key = ""
    /\ ChunkRows(1)[2].key = "k1"
    /\ ChunkRows(1)[3].key = "k2"
    /\ BlankKeyRowFailed(chunkResults[1])
    /\ chunkResults[1].inserted = 1
    /\ \A r \in store : r.key = "k2"

\* ------------------------------------------------------------------- C27

\* The label reads the bytes without U+FFFD in the output, on this runtime.
DecodesClean(label) ==
    /\ label \in decoder.supported
    /\ TextDecoderDecode(label, decoder.bytes).damage # "replacement"

\* The first of Shift-JIS, UTF-8 that reads the bytes without U+FFFD; the
\* last one tried, UTF-8, when neither does.
FirstClean == IF DecodesClean("shift-jis") THEN "shift-jis" ELSE "utf-8"

\* C27: the decoding accepted is that of the first encoding, Shift-JIS then
\* UTF-8, that reads the bytes without replacement characters, and that of
\* the last one tried when none does; the job goes on from the decoding to
\* the header replacement and the chunk loop whatever the bytes are.
C27_DecodingFallback ==
    /\ decoder.pc = "bytes" => ENABLED Decode
    /\ decoder.pc = "decoded" =>
           /\ decoder.used = FirstClean
           /\ fileLines = TextDecoderDecode(FirstClean, decoder.bytes).lines
           /\ pc = "arrayBuffer" => ENABLED Prepare

\* ------------------------------------------------------------------- C28

\* The batches of the running invocation that the loop has been through.
BatchesAttempted == Min(Ceil(ef.i, batchSize), Ceil(Len(ef.productions), batchSize))

\* The rows of batch b of the running invocation.
EfBatchRows(b) == Slice(ef.productions, (b - 1) * batchSize, b * batchSize)

\* errors holds an entry for batch b.
EfBatchFailed(b) == \E k \in 1..Len(ef.errors) : ef.errors[k].n = b

\* The rows of the batches up to b that have no entry in errors.
RECURSIVE RowsUpserted(_)
RowsUpserted(b) ==
    IF b = 0
    THEN 0
    ELSE RowsUpserted(b - 1) + (IF EfBatchFailed(b) THEN 0 ELSE Len(EfBatchRows(b)))

\* Every row with a key of a batch that went through has its record.
UpsertedRowsStored ==
    \A b \in 1..BatchesAttempted :
        ~EfBatchFailed(b) =>
            \A k \in 1..Len(EfBatchRows(b)) :
                EfBatchRows(b)[k].key # NULL =>
                    \E r \in store : r.key = EfBatchRows(b)[k].key

\* C28: inside one invocation of bulk-upsert-productions a failed batch does
\* not stop the later ones: the loop goes through every batch in order,
\* inserted is the number of rows of the batches that were upserted without
\* error, errors holds one entry per failed batch, totalRecords is the
\* number of data rows of the staged chunk, and success is true exactly
\* when errors is empty.
C28_BatchLoop ==
    ef.pc \in {"batch", "returned"} =>
        /\ ef.i % batchSize = 0
        /\ ef.pc = "batch" /\ ef.i < Len(ef.productions) => ENABLED EfBatch
        /\ ef.pc = "returned" =>
               BatchesAttempted = Ceil(Len(ef.productions), batchSize)
        /\ \A k \in 1..Len(ef.errors) :
               /\ ef.errors[k].what = "batch"
               /\ ef.errors[k].n \in 1..BatchesAttempted
               /\ k > 1 => ef.errors[k - 1].n < ef.errors[k].n
        /\ EfResult.inserted = RowsUpserted(BatchesAttempted)
        /\ UpsertedRowsStored
        /\ EfResult.totalRecords = Len(ChunkRows(chunkNumber))
        /\ EfResult.success <=> EfResult.errors = << >>
        /\ ef.pc = "returned" =>
               (EfResult.success <=> EfResult.inserted = EfResult.totalRecords)

\* An invocation of three batches of one row has answered: the first batch
\* failed, the two after it were upserted.
C28_Witness ==
    /\ ef.pc = "returned"
    /\ batchSize = 1
    /\ Len(ef.productions) = 3
    /\ EfResult.errors = << [what |-> "batch", n |-> 1] >>
    /\ EfResult.inserted = 2
    /\ ~EfResult.success
    /\ Cardinality(store) = 2

\* ------------------------------------------------------------------- C29

RECURSIVE SumUpdated(_)
SumUpdated(j) ==
    IF j = 0 THEN 0 ELSE SumUpdated(j - 1) + chunkResults[j].updated

RECURSIVE SumErrors(_)
SumErrors(j) ==
    IF j = 0 THEN 0 ELSE SumErrors(j - 1) + Len(chunkResults[j].errors)

\* C29: at every point of the chunk loop and at the end of the job the
\* running totals are the fold of the recorded entries: totalInserted and
\* totalUpdated are the sums of the entries' counts, totalErrors is the sum
\* of the lengths of their error lists, an entry recorded as failed counting
\* for exactly one; the report of a job that has ended carries these totals.
C29_TotalsAreFold ==
    /\ totalInserted = SumInserted(Len(chunkResults))
    /\ totalUpdated = SumUpdated(Len(chunkResults))
    /\ totalErrors = SumErrors(Len(chunkResults))
    /\ \A j \in Recorded :
           EntryFailed(chunkResults[j]) =>
               /\ Len(chunkResults[j].errors) = 1
               /\ chunkResults[j].inserted = 0
               /\ chunkResults[j].updated = 0
    /\ JobDone =>
           /\ ReportTotals(report).reconciled
                  = SumInserted(Len(chunkResults)) + SumUpdated(Len(chunkResults))
           /\ report.kind = "error" =>
                  report.errors = SumErrors(Len(chunkResults))
           /\ report.kind = "success" => SumErrors(Len(chunkResults)) = 0

\* A job of two chunks has ended: one chunk failed, the other reconciled its
\* row, and the report counts one error and one row.
C29_Witness ==
    /\ JobDone
    /\ Len(chunkResults) = 2
    /\ \E j \in Recorded : EntryFailed(chunkResults[j])
    /\ \E j \in Recorded : chunkResults[j].inserted = 1
    /\ totalErrors = 1
    /\ totalInserted = 1
    /\ report.kind = "error"
    /\ report.errors = 1
    /\ report.processed = 1

\* ------------------------------------------------------------------- C30

\* C30: in streaming mode the response stream is closed in the end on every
\* path of the handler (a submit rejected by the validations, a job that
\* completes, a job whose every chunk fails, an exception anywhere in the
\* job, the emission of a frame included), every storage and invoke call
\* returning or throwing in the end: the stream is never left open.
C30_StreamClosedInTheEnd == Streaming ~> (streamState = "closed")

=========================================================================
